---- MODULE Spec2Model ----
(***************************************************************************)
(* Model of keystone_rxt/rackspace.py: the Rackspace credential exchange   *)
(* plugin for keystone.  Every authenticate() call is a process that runs  *)
(* RXTPassword.authenticate / RXTTOTP.authenticate: the domain gate, the   *)
(* construction of RXTv2Credentials, __enter__ (credential selection),     *)
(* rxt_auth/_rxt_auth (catalog cache check, MFA gate, HTTP exchange,       *)
(* response handling, apiKey -> password fallback) and __exit__.           *)
(* The two cache regions, the class-level header dict and the class-level *)
(* requests.Session are shared by all calls.  The asserts of the two       *)
(* authenticate methods are executed (the interpreter's default mode), and *)
(* the host's handlers called by return_auth_handler return.               *)
(*                                                                         *)
(* Abstractions: sha224(json.dumps(payload, sort_keys=True)) is modelled   *)
(* by the payload value itself (records carry no key order; collisions of  *)
(* the digest are not modelled) and sha224(username) by the username.      *)
(* A WWW-Authenticate header value is modelled by its scheme and the list  *)
(* of sessionId='...' occurrences the pattern of _sessionID finds in it.   *)
(* A timestamp string is modelled by the number it parses to, or by a      *)
(* string that dateutil cannot parse.                                      *)
(*                                                                         *)
(* Time: the current time is the origin of the time axis.  Every timestamp *)
(* held in the state (the creation time of a cache entry, the expires of a *)
(* catalog) is an offset in seconds from the current time, and Tick, the   *)
(* passing of time, shifts them all.  An expires that lies in the past is  *)
(* kept at the origin: the program only ever compares it with the current  *)
(* time.                                                                   *)
(***************************************************************************)
EXTENDS Integers, Sequences, FiniteSets, TLC

VARIABLES
    RXT_SESSION_CACHE,  \* region rxt_sess: key -> [value, ct]
    RXT_SERVICE_CACHE,  \* region rxt_srv:  key -> [value, ct]
    rxt_headers,        \* RXTv2Credentials.rxt_headers, one dict for the class
    session,            \* RXTv2Credentials.session, one requests.Session for the class
    started,            \* number of authenticate() calls begun so far
    pc,                 \* per call: position in the code
    auth_payload,       \* per call: auth_payload, the argument and self.auth_payload
    hashed_auth_payload,\* per call: self.hashed_auth_payload
    session_id,         \* per call: self.session_id
    rxt_auth_payload,   \* per call: auth_type of self.rxt_auth_payload
    service_catalog,    \* per call: local service_catalog of _rxt_auth
    sent,               \* per call: the exchanges posted so far, with their answers
    environ,            \* per call: flask.request.environ (the RXT_* keys)
    outcome             \* per call: what authenticate() returned or raised

vars == <<RXT_SESSION_CACHE, RXT_SERVICE_CACHE, rxt_headers, session, started,
          pc, auth_payload, hashed_auth_payload, session_id, rxt_auth_payload,
          service_catalog, sent, environ, outcome>>

shared == <<RXT_SESSION_CACHE, RXT_SERVICE_CACHE, rxt_headers>>

-----------------------------------------------------------------------------
(* Bounds of the model *)

NumCalls == 2       \* authenticate() calls that can be in flight together
MaxCalls == 3       \* authenticate() calls begun in one behaviour
MaxCallsMfa == 4    \* the same, where only MFA logins are made
MaxCallsSel == 1    \* the same, where only the credential selection runs
MaxCallsFair == 2   \* the same, where the calls are scheduled fairly
MaxCallsTrans == 2  \* the same, where the upstream answers catalogs of every shape
MaxCallsGate == 2   \* the same, where payloads of every shape are submitted

Calls == 1..NumCalls

-----------------------------------------------------------------------------
(* Program constants *)

SESSION_EXPIRATION == 60
SERVICE_EXPIRATION == 30
HashLengths == <<32, 40, 64>>
RACKSPACE_DOMAIN == "rackspace_cloud_domain"

\* the current time, the origin of every timestamp of the state
Now == 0
\* the clock advances in steps of the shorter expiration time
TickSeconds == SERVICE_EXPIRATION

None == "None"
NO_VALUE == [NO_VALUE |-> TRUE]
EmptyDict == [k \in {} |-> None]
NotJson == [not_json |-> TRUE]

Truthy(x) == x \notin {None, ""}

-----------------------------------------------------------------------------
(* Values of the environment: users, credentials, upstream answers *)

Chars(n, ch) == [i \in 1..n |-> ch]

PlainPassword == <<"p", "w">>
HexKey        == Chars(HashLengths[1], "a")
Passcode      == "123456"

RaxDomain == [name |-> RACKSPACE_DOMAIN]

PayloadPassword == [user |-> [name |-> "alice", password |-> PlainPassword, domain |-> RaxDomain]]
PayloadApiKey   == [user |-> [name |-> "alice", password |-> HexKey, domain |-> RaxDomain]]
PayloadPasscode == [user |-> [name |-> "alice", passcode |-> Passcode, domain |-> RaxDomain]]
PayloadBob      == [user |-> [name |-> "bob", password |-> PlainPassword, domain |-> RaxDomain]]
PayloadBobPasscode == [user |-> [name |-> "bob", passcode |-> Passcode, domain |-> RaxDomain]]
PayloadNoName   == [user |-> [password |-> PlainPassword, domain |-> RaxDomain]]
PayloadLocal    == [user |-> [name |-> "alice", password |-> PlainPassword, domain |-> [name |-> "Default"]]]

Payloads == {PayloadPassword, PayloadApiKey, PayloadPasscode, PayloadBob,
             PayloadNoName, PayloadLocal}

\* WWW-Authenticate values: an MFA challenge, a second one, a plain 401 realm
ChallengeS1 == [scheme |-> "OS-MF", sessionIds |-> <<"s1">>]
ChallengeS2 == [scheme |-> "OS-MF", sessionIds |-> <<"s2">>]
PlainRealm  == [scheme |-> "Keystone", sessionIds |-> <<>>]
ChallengeTwice == [scheme |-> "OS-MF", sessionIds |-> <<"s1", "s2">>]
Challenges  == {ChallengeS1, PlainRealm}

\* access.token.expires: a timestamp dateutil parses, or text it rejects
Timestamp(t) == [iso |-> t]
BadTimestamp == [text |-> "soon"]
TokenLifetimes == {SERVICE_EXPIRATION, 4 * SERVICE_EXPIRATION}

Roles == << [name |-> <<"f", ":", "b">>], [name |-> <<"a">>] >>

AccessUser == ("RAX-AUTH:domainId" :> "d1")
              @@ [name |-> "alice", email |-> "a@x", roles |-> Roles]
Tenant == [name |-> "t1", id |-> "1"]

Catalog(exp)     == [access |-> [user |-> AccessUser,
                                 token |-> [tenant |-> Tenant, expires |-> exp]]]
CatalogNoExpires == [access |-> [user |-> AccessUser, token |-> [tenant |-> Tenant]]]
CatalogNoTenant  == [access |-> [user |-> AccessUser,
                                 token |-> [expires |-> Timestamp(0)]]]

\* What the upstream can answer
JsonHeaders == [Content_Type |-> "application/json"]
ChallengeHeaders(h) == "WWW-Authenticate" :> h

CatalogResponse(j) ==
    [kind |-> "http", status |-> 200, headers |-> JsonHeaders, json |-> j]
ChallengeResponse(h) ==
    [kind |-> "http", status |-> 401, headers |-> ChallengeHeaders(h), json |-> NotJson]
StatusResponse(st) ==
    [kind |-> "http", status |-> st, headers |-> JsonHeaders, json |-> NotJson]
ConnectionError == [kind |-> "connection_error"]

Responses ==
       { CatalogResponse(Catalog(Timestamp(Now + l))) : l \in TokenLifetimes }
  \cup { CatalogResponse(j) :
           j \in {Catalog(BadTimestamp), CatalogNoExpires, CatalogNoTenant, NotJson} }
  \cup { ChallengeResponse(h) : h \in Challenges }
  \cup { StatusResponse(st) : st \in {401, 500} }
  \cup { ConnectionError }

-----------------------------------------------------------------------------
(* The cache regions (dogpile regions with an expiration_time) *)

\* region.get(key): the value, or NO_VALUE when absent or older than ttl
Get(region, key, ttl) ==
    IF key \in DOMAIN region /\ ~(Now - region[key].ct > ttl)
    THEN region[key].value
    ELSE NO_VALUE

\* region.set(key, value)
Set(region, key, value) ==
    [k \in DOMAIN region \cup {key} |->
        IF k = key THEN [value |-> value, ct |-> Now] ELSE region[k]]

\* region.delete(key)
Delete(region, key) == [k \in DOMAIN region \ {key} |-> region[k]]

\* the region d seconds later: the entries that are then older than ttl are
\* gone, and the timestamps of the others are d seconds further in the past
Later(region, ttl, d) ==
    [k \in {x \in DOMAIN region : ~(Now - (region[x].ct - d) > ttl)} |->
        [region[k] EXCEPT !.ct = @ - d]]

-----------------------------------------------------------------------------
(* RXTv2Credentials: properties *)

HasKey(d, k) == k \in DOMAIN d

\* _username: user.name, else user.username, else Unauthorized
HasUsername(p) == HasKey(p.user, "name") \/ HasKey(p.user, "username")

\* mutant of Username: user.username is tried first
UsernameFirst(p) == IF HasKey(p.user, "username") THEN p.user.username ELSE p.user.name

Username(p) == IF HasKey(p.user, "name") THEN p.user.name ELSE p.user.username

\* _password raises Unauthorized without the key
HasPassword(p) == HasKey(p.user, "password")

\* _passcode: the value or None
PasscodeOf(p) == IF HasKey(p.user, "passcode") THEN p.user.passcode ELSE None

\* _sessionID: the last sessionId='...' of the cached header, or None
SessionID(user) ==
    LET session_header == Get(RXT_SESSION_CACHE, user, SESSION_EXPIRATION) IN
    IF session_header = NO_VALUE THEN None
    ELSE IF session_header.sessionIds = <<>> THEN None
    ELSE session_header.sessionIds[Len(session_header.sessionIds)]

IsHexChar(ch) == ch \in {"0", "1", "2", "3", "4", "5", "6", "7", "8", "9",
                         "a", "b", "c", "d", "e", "f",
                         "A", "B", "C", "D", "E", "F"}

\* re.match(r"^[a-fA-F0-9]{n}$", s): in Python "$" also matches before a
\* newline that ends the string
MatchHash(n, s) ==
    /\ Len(s) >= n
    /\ \A i \in 1..n : IsHexChar(s[i])
    /\ \/ Len(s) = n
       \/ Len(s) = n + 1 /\ s[n + 1] = "\n"

MatchesHashType(s) == \E i \in DOMAIN HashLengths : MatchHash(HashLengths[i], s)

\* mutant of UsesPasscode: the hex pattern is tried before the passcode
UsesPasscodeUnlessHex(p, sid) ==
    /\ Truthy(PasscodeOf(p)) /\ Truthy(sid)
    /\ ~(HasPassword(p) /\ MatchesHashType(p.user.password))

\* __enter__: which credentials are selected; "raise" when _password raises
UsesPasscode(p, sid) == Truthy(PasscodeOf(p)) /\ Truthy(sid)

SelectCredentials(p, sid) ==
    IF UsesPasscode(p, sid) THEN "passcodeCredentials"
    ELSE IF ~HasPassword(p) THEN "raise"
    ELSE IF MatchesHashType(p.user.password) THEN "apiKeyCredentials"
    ELSE "passwordCredentials"

\* the body posted for an auth_type
AuthData(p, auth_type) ==
    CASE auth_type = "apiKeyCredentials" ->
           [auth |-> ("RAX-KSKEY:apiKeyCredentials" :>
                        [username |-> Username(p), apiKey |-> p.user.password])]
      [] auth_type = "passwordCredentials" ->
           [auth |-> [passwordCredentials |->
                        [username |-> Username(p), password |-> p.user.password]]]
      [] OTHER ->
           [auth |-> ("RAX-AUTH:passcodeCredentials" :> [passcode |-> PasscodeOf(p)])]

-----------------------------------------------------------------------------
(* parse_service_catalog and set_federation_env *)

\* name.split(":")[-1]: what follows the last colon
LastColon(name) ==
    IF \E i \in DOMAIN name : name[i] = ":"
    THEN CHOOSE i \in DOMAIN name :
            name[i] = ":" /\ \A j \in DOMAIN name : name[j] = ":" => j <= i
    ELSE 0

SplitLast(name) == SubSeq(name, LastColon(name) + 1, Len(name))

\* the subscripts of parse_service_catalog that raise KeyError when missing
CatalogParses(cat) ==
    /\ HasKey(cat, "access")
    /\ HasKey(cat.access, "user") /\ HasKey(cat.access, "token")
    /\ HasKey(cat.access.user, "roles")
    /\ \A i \in DOMAIN cat.access.user.roles : HasKey(cat.access.user.roles[i], "name")
    /\ HasKey(cat.access.user, "name") /\ HasKey(cat.access.user, "email")
    /\ HasKey(cat.access.user, "RAX-AUTH:domainId")
    /\ HasKey(cat.access.token, "tenant")
    /\ HasKey(cat.access.token.tenant, "name") /\ HasKey(cat.access.token.tenant, "id")

\* access_user_roles: the set of role names cut after their last colon
AccessUserRoles(cat) ==
    {SplitLast(cat.access.user.roles[i].name) : i \in DOMAIN cat.access.user.roles}

\* the orders in which a Python set can be iterated: every enumeration of it
Orders(S) ==
    {o \in [1..Cardinality(S) -> S] :
        \A i, j \in 1..Cardinality(S) : o[i] = o[j] => i = j}

\* ";".join(order)
RECURSIVE Join(_)
Join(order) ==
    IF order = <<>> THEN <<>>
    ELSE IF Len(order) = 1 THEN order[1]
    ELSE order[1] \o <<";">> \o Join(Tail(order))

\* the keyword arguments handed to set_federation_env, access_user_roles
\* iterated in the given order
FederationArgs(cat, order) ==
    [RXT_UserName       |-> cat.access.user.name,
     RXT_Email          |-> cat.access.user.email,
     RXT_DomainID       |-> cat.access.user["RAX-AUTH:domainId"],
     RXT_TenantName     |-> cat.access.token.tenant.name,
     RXT_TenantID       |-> cat.access.token.tenant.id,
     RXT_orgPersonType  |-> Join(order)]

ArgIsSet(args, k) ==
    IF k = "RXT_orgPersonType" THEN args[k] # <<>> ELSE Truthy(args[k])

\* set_federation_env: every argument that is truthy is written
SetFederationEnv(env, args) ==
    [k \in DOMAIN env \cup {a \in DOMAIN args : ArgIsSet(args, a)} |->
        IF k \in DOMAIN args /\ ArgIsSet(args, k) THEN args[k] ELSE env[k]]

-----------------------------------------------------------------------------
(* _rxt_auth: the catalog cache check *)

\* parser.parse(expires) succeeds
Parsable(expires) == HasKey(expires, "iso")

\* mutant of NotExpired: >= in place of >
NotExpiredInclusive(expires, t) == expires.iso >= t

\* token_expire.timestamp() > token_expire.now().timestamp()
NotExpired(expires, t) == expires.iso > t

\* what the cache check of _rxt_auth finds in the value it read
CatalogVerdict(cat, t) ==
    IF cat = NO_VALUE THEN "miss"
    ELSE IF ~(/\ HasKey(cat, "access")
              /\ HasKey(cat.access, "token")
              /\ HasKey(cat.access.token, "expires")) THEN "invalid"
    ELSE IF ~Parsable(cat.access.token.expires) THEN "unparsable"
    ELSE IF NotExpired(cat.access.token.expires, t) THEN "fresh"
    ELSE "expired"

\* mutant of MfaGate: the auth type is compared with the wrong name
MfaGateWrongName(sid, auth_type) == Truthy(sid) /\ auth_type = "password"

\* if self.session_id and auth_type == "passwordCredentials": return True
MfaGate(sid, auth_type) == Truthy(sid) /\ auth_type = "passwordCredentials"

\* r.status_code == 401 and "WWW-Authenticate" in r.headers
IsChallenge(r) == r.status = 401 /\ HasKey(r.headers, "WWW-Authenticate")

\* r.raise_for_status() raises HTTPError
IsHttpError(r) == r.status >= 400 /\ r.status < 600

-----------------------------------------------------------------------------
(* State *)

Init ==
    /\ RXT_SESSION_CACHE = EmptyDict
    /\ RXT_SERVICE_CACHE = EmptyDict
    /\ rxt_headers = EmptyDict
    /\ session = "open"
    /\ started = 0
    /\ pc = [c \in Calls |-> "idle"]
    /\ auth_payload = [c \in Calls |-> NO_VALUE]
    /\ hashed_auth_payload = [c \in Calls |-> NO_VALUE]
    /\ session_id = [c \in Calls |-> None]
    /\ rxt_auth_payload = [c \in Calls |-> None]
    /\ service_catalog = [c \in Calls |-> NO_VALUE]
    /\ sent = [c \in Calls |-> <<>>]
    /\ environ = [c \in Calls |-> EmptyDict]
    /\ outcome = [c \in Calls |-> None]

\* the call object is dropped: its fields go back to their class defaults
Forget(c) ==
    /\ pc' = [pc EXCEPT ![c] = "idle"]
    /\ auth_payload' = [auth_payload EXCEPT ![c] = NO_VALUE]
    /\ hashed_auth_payload' = [hashed_auth_payload EXCEPT ![c] = NO_VALUE]
    /\ session_id' = [session_id EXCEPT ![c] = None]
    /\ rxt_auth_payload' = [rxt_auth_payload EXCEPT ![c] = None]
    /\ service_catalog' = [service_catalog EXCEPT ![c] = NO_VALUE]
    /\ sent' = [sent EXCEPT ![c] = <<>>]
    /\ environ' = [environ EXCEPT ![c] = EmptyDict]
    /\ outcome' = [outcome EXCEPT ![c] = None]

\* the call ends with `result` at position `at` ("exit": inside the with
\* block, __exit__ still to run; "done": raised or returned outside of it)
Finish(c, at, result) ==
    /\ pc' = [pc EXCEPT ![c] = at]
    /\ outcome' = [outcome EXCEPT ![c] = result]

\* mutant of DomainIsRackspace: any named domain passes
DomainIsNamed(p) ==
    /\ HasKey(p, "user")
    /\ HasKey(p.user, "domain")
    /\ HasKey(p.user.domain, "name")

\* the assert of RXTPassword.authenticate / RXTTOTP.authenticate
DomainIsRackspace(p) ==
    /\ HasKey(p, "user")
    /\ HasKey(p.user, "domain")
    /\ HasKey(p.user.domain, "name")
    /\ p.user.domain.name = RACKSPACE_DOMAIN

\* self.rxt_headers["X-SessionId"] = self.session_id
WithSessionHeader(headers, sid) ==
    [k \in DOMAIN headers \cup {"X-SessionId"} |->
        IF k = "X-SessionId" THEN sid ELSE headers[k]]

-----------------------------------------------------------------------------
(* Actions *)

\* authenticate(auth_payload) up to the call of rxt.rxt_auth(): the domain
\* assert, RXTv2Credentials.__init__ and __enter__
Authenticate(c, p) ==
    /\ pc[c] = "idle"
    /\ started' = started + 1
    /\ UNCHANGED <<RXT_SESSION_CACHE, RXT_SERVICE_CACHE, session,
                   service_catalog, sent, environ>>
    /\ auth_payload' = [auth_payload EXCEPT ![c] = p]
    /\ IF ~DomainIsRackspace(p)
       THEN /\ Finish(c, "done", "delegated")
            /\ UNCHANGED <<rxt_headers, hashed_auth_payload, session_id,
                           rxt_auth_payload>>
       ELSE IF ~HasUsername(p)
       THEN /\ hashed_auth_payload' = [hashed_auth_payload EXCEPT ![c] = p]
            /\ Finish(c, "done", "Unauthorized")
            /\ UNCHANGED <<rxt_headers, session_id, rxt_auth_payload>>
       ELSE LET sid  == SessionID(Username(p))
                kind == SelectCredentials(p, sid) IN
            /\ hashed_auth_payload' = [hashed_auth_payload EXCEPT ![c] = p]
            /\ session_id' = [session_id EXCEPT ![c] = sid]
            /\ IF kind = "raise"
               THEN /\ Finish(c, "done", "Unauthorized")
                    /\ UNCHANGED <<rxt_headers, rxt_auth_payload>>
               ELSE /\ pc' = [pc EXCEPT ![c] = "rxt_auth"]
                    /\ rxt_auth_payload' = [rxt_auth_payload EXCEPT ![c] = kind]
                    /\ rxt_headers' = IF kind = "passcodeCredentials"
                                      THEN WithSessionHeader(rxt_headers, sid)
                                      ELSE rxt_headers
                    /\ UNCHANGED outcome

\* _rxt_auth: service_catalog = RXT_SERVICE_CACHE.get(self.hashed_auth_payload)
CacheGet(c) ==
    /\ pc[c] = "rxt_auth"
    /\ service_catalog' = [service_catalog EXCEPT ![c] =
          Get(RXT_SERVICE_CACHE, hashed_auth_payload[c], SERVICE_EXPIRATION)]
    /\ pc' = [pc EXCEPT ![c] = "check"]
    /\ UNCHANGED <<shared, session, started, auth_payload, hashed_auth_payload,
                   session_id, rxt_auth_payload, sent, environ, outcome>>

\* return self.return_auth_handler(): the payload is tagged in place
Tagged(p) ==
    [k \in DOMAIN p \cup {"identity_provider", "protocol"} |->
        IF k \in {"identity_provider", "protocol"} THEN "rackspace" ELSE p[k]]

\* _rxt_auth returned False: translate, tag the payload, status=True
Succeed(c, cat) ==
    /\ \E order \in Orders(AccessUserRoles(cat)) :
          environ' = [environ EXCEPT ![c] =
                        SetFederationEnv(environ[c], FederationArgs(cat, order))]
    /\ auth_payload' = [auth_payload EXCEPT ![c] = Tagged(auth_payload[c])]
    /\ Finish(c, "exit", "success")

\* _rxt_auth from the test of the value read to self.session.post(...); a
\* closed session opens its connection pool again when it is used
CacheCheck(c) ==
    /\ pc[c] = "check"
    /\ LET cat     == service_catalog[c]
           verdict == CatalogVerdict(cat, Now) IN
       /\ RXT_SERVICE_CACHE' =
             IF verdict \in {"invalid", "expired"}
             THEN Delete(RXT_SERVICE_CACHE, hashed_auth_payload[c])
             ELSE RXT_SERVICE_CACHE
       /\ CASE verdict = "fresh" ->
                 /\ IF CatalogParses(cat)
                    THEN Succeed(c, cat)
                    ELSE /\ Finish(c, "exit", "Unauthorized")
                         /\ UNCHANGED <<environ, auth_payload>>
                 /\ UNCHANGED <<sent, session>>
            [] verdict = "unparsable" ->
                 /\ Finish(c, "exit", "ParserError")
                 /\ UNCHANGED <<environ, auth_payload, sent, session>>
            [] OTHER ->
                 IF MfaGate(session_id[c], rxt_auth_payload[c])
                 THEN /\ Finish(c, "exit", "mfa_pending")
                      /\ UNCHANGED <<environ, auth_payload, sent, session>>
                 ELSE /\ session' = "open"
                      /\ sent' = [sent EXCEPT ![c] = Append(@,
                                    [auth_type |-> rxt_auth_payload[c],
                                     json      |-> AuthData(auth_payload[c], rxt_auth_payload[c]),
                                     headers   |-> rxt_headers,
                                     answer    |-> None])]
                      /\ pc' = [pc EXCEPT ![c] = "wait"]
                      /\ UNCHANGED <<environ, auth_payload, outcome>>
    /\ UNCHANGED <<RXT_SESSION_CACHE, rxt_headers, started,
                   hashed_auth_payload, session_id, rxt_auth_payload,
                   service_catalog>>

\* mutant of FallsBack: every HTTP failure is tried again
FallsBackAlways(auth_type) == TRUE

\* except requests.HTTPError: if auth_type == "apiKeyCredentials"
FallsBack(auth_type) == auth_type = "apiKeyCredentials"

\* mutant of Cacheable: the catalog is stored before it is parsed
CacheableUnparsed(cat) == TRUE

\* RXT_SERVICE_CACHE.set is reached when parse_service_catalog has returned
Cacheable(cat) == CatalogParses(cat)

\* how _rxt_auth takes the answer r
AnswerOf(r) ==
    IF r.kind = "connection_error" THEN "connection_error"
    ELSE IF IsChallenge(r) THEN "challenge"
    ELSE IF IsHttpError(r) THEN "http_error"
    ELSE IF r.json = NotJson THEN "not_json"
    ELSE IF CatalogParses(r.json) THEN "catalog"
    ELSE "json"

\* the upstream answers r: _rxt_auth after the post, and the handlers of
\* rxt_auth
Respond(c, r) ==
    /\ pc[c] = "wait"
    /\ sent' = [sent EXCEPT ![c][Len(sent[c])].answer = AnswerOf(r)]
    /\ UNCHANGED <<rxt_headers, session, started, hashed_auth_payload,
                   session_id, service_catalog>>
    /\ IF r.kind = "connection_error"
       THEN /\ Finish(c, "exit", "ConnectionError")
            /\ UNCHANGED <<RXT_SESSION_CACHE, RXT_SERVICE_CACHE, environ,
                           auth_payload, rxt_auth_payload>>
       ELSE IF IsChallenge(r)
       THEN /\ RXT_SESSION_CACHE' = Set(RXT_SESSION_CACHE,
                                        Username(auth_payload[c]),
                                        r.headers["WWW-Authenticate"])
            /\ Finish(c, "exit", "mfa_pending")
            /\ UNCHANGED <<RXT_SERVICE_CACHE, environ, auth_payload,
                           rxt_auth_payload>>
       ELSE IF IsHttpError(r)
       THEN /\ IF FallsBack(rxt_auth_payload[c])
               THEN /\ rxt_auth_payload' =
                         [rxt_auth_payload EXCEPT ![c] = "passwordCredentials"]
                    /\ pc' = [pc EXCEPT ![c] = "rxt_auth"]
                    /\ UNCHANGED outcome
               ELSE /\ Finish(c, "exit", "Unauthorized")
                    /\ UNCHANGED rxt_auth_payload
            /\ UNCHANGED <<RXT_SESSION_CACHE, RXT_SERVICE_CACHE, environ,
                           auth_payload>>
       ELSE IF r.json = NotJson
       THEN /\ Finish(c, "exit", "JSONDecodeError")
            /\ UNCHANGED <<RXT_SESSION_CACHE, RXT_SERVICE_CACHE, environ,
                           auth_payload, rxt_auth_payload>>
       ELSE /\ IF CatalogParses(r.json)
               THEN Succeed(c, r.json)
               ELSE /\ Finish(c, "exit", "Unauthorized")
                    /\ UNCHANGED <<environ, auth_payload>>
            /\ RXT_SERVICE_CACHE' =
                  IF Cacheable(r.json)
                  THEN Set(RXT_SERVICE_CACHE, hashed_auth_payload[c], r.json)
                  ELSE RXT_SERVICE_CACHE
            /\ UNCHANGED <<RXT_SESSION_CACHE, rxt_auth_payload>>

\* __exit__: self.session.close(); the call returns or re-raises
Exit(c) ==
    /\ pc[c] = "exit"
    /\ session' = "closed"
    /\ Forget(c)
    /\ UNCHANGED <<shared, started>>

\* the call ended before the with block was entered
Return(c) ==
    /\ pc[c] = "done"
    /\ Forget(c)
    /\ UNCHANGED <<shared, session, started>>

\* a timestamp d seconds later, as an offset from the new current time
ShiftStamp(expires, d) ==
    IF Parsable(expires)
    THEN [expires EXCEPT !.iso = IF @ - d > Now THEN @ - d ELSE Now]
    ELSE expires

ShiftCatalog(cat) ==
    IF /\ HasKey(cat, "access")
       /\ HasKey(cat.access, "token")
       /\ HasKey(cat.access.token, "expires")
    THEN [cat EXCEPT !.access.token.expires = ShiftStamp(@, TickSeconds)]
    ELSE cat

\* the catalogs of a region, their expiry as offsets from the new current time
ShiftCatalogs(region) ==
    [k \in DOMAIN region |-> [region[k] EXCEPT !.value = ShiftCatalog(@)]]

\* time passes: TickSeconds later the entries older than their region's
\* expiration_time are gone
Tick ==
    /\ RXT_SESSION_CACHE' =
          Later(RXT_SESSION_CACHE, SESSION_EXPIRATION, TickSeconds)
    /\ RXT_SERVICE_CACHE' =
          ShiftCatalogs(
              Later(RXT_SERVICE_CACHE, SERVICE_EXPIRATION, TickSeconds))
    /\ service_catalog' = [c \in Calls |-> ShiftCatalog(service_catalog[c])]
    /\ UNCHANGED <<rxt_headers, session, started, pc, auth_payload,
                   hashed_auth_payload, session_id, rxt_auth_payload, sent,
                   environ, outcome>>

\* the next-state relation over the payloads callers submit, the answers the
\* upstream gives and the number of calls begun
NextOver(payloads, responses, maxCalls) ==
    \/ \E c \in Calls, p \in payloads : started < maxCalls /\ Authenticate(c, p)
    \/ \E c \in Calls : CacheGet(c)
    \/ \E c \in Calls : CacheCheck(c)
    \/ \E c \in Calls : \E r \in responses : Respond(c, r)
    \/ \E c \in Calls : Exit(c)
    \/ \E c \in Calls : Return(c)
    \/ Tick

Next == NextOver(Payloads, Responses, MaxCalls)

Spec == Init /\ [][Next]_vars

-----------------------------------------------------------------------------
(* MFA logins of two users: password, challenge, passcode *)

MfaPayloads == {PayloadPassword, PayloadPasscode, PayloadBob, PayloadBobPasscode}
MfaResponses ==
    { ChallengeResponse(ChallengeS1), ChallengeResponse(ChallengeS2),
      CatalogResponse(Catalog(Timestamp(Now + 4 * SERVICE_EXPIRATION))) }

MfaNext == NextOver(MfaPayloads, MfaResponses, MaxCallsMfa)

MfaSpec == Init /\ [][MfaNext]_vars

-----------------------------------------------------------------------------
(* The credential selection alone, over many payloads and over the session *)
(* headers and outbound headers that earlier calls can have left behind    *)

SelPasswords ==
    { PlainPassword, <<>>,
      Chars(HashLengths[1], "a"), Chars(HashLengths[2], "F"), Chars(HashLengths[3], "0"),
      Chars(HashLengths[1] - 1, "a"), Chars(HashLengths[1] + 1, "a"),
      Chars(HashLengths[2] + 1, "a"), Chars(HashLengths[3] + 1, "a"),
      Chars(HashLengths[1] - 1, "a") \o <<"g">>,
      Chars(HashLengths[1], "a") \o <<"\n">>,
      Chars(HashLengths[1], "a") \o <<"\n", "\n">> }

SelPayloads ==
    { [user |-> [name |-> "alice", domain |-> RaxDomain] @@ pw @@ code] :
        pw   \in {EmptyDict} \cup {[password |-> w] : w \in SelPasswords},
        code \in {EmptyDict} \cup {[passcode |-> k] : k \in {"", Passcode}} }

SelChallenges == {ChallengeS1, PlainRealm, ChallengeTwice}

SelInit ==
    /\ RXT_SESSION_CACHE \in
          {EmptyDict} \cup {[alice |-> [value |-> h, ct |-> Now]] : h \in SelChallenges}
    /\ RXT_SERVICE_CACHE = EmptyDict
    /\ rxt_headers \in {EmptyDict, "X-SessionId" :> "s2"}
    /\ session = "open"
    /\ started = 0
    /\ pc = [c \in Calls |-> "idle"]
    /\ auth_payload = [c \in Calls |-> NO_VALUE]
    /\ hashed_auth_payload = [c \in Calls |-> NO_VALUE]
    /\ session_id = [c \in Calls |-> None]
    /\ rxt_auth_payload = [c \in Calls |-> None]
    /\ service_catalog = [c \in Calls |-> NO_VALUE]
    /\ sent = [c \in Calls |-> <<>>]
    /\ environ = [c \in Calls |-> EmptyDict]
    /\ outcome = [c \in Calls |-> None]

SelNext ==
    \/ \E c \in Calls, p \in SelPayloads : started < MaxCallsSel /\ Authenticate(c, p)
    \/ \E c \in Calls : Return(c)

SelSpec == SelInit /\ [][SelNext]_vars

-----------------------------------------------------------------------------
(* Fair scheduling: a call that can take a step of its own takes it; the   *)
(* upstream is under no obligation to answer                               *)

FairPayloads == {PayloadPassword, PayloadApiKey, PayloadNoName}

FairNext == NextOver(FairPayloads, Responses, MaxCallsFair)

OwnStep == \E c \in Calls : CacheGet(c) \/ CacheCheck(c) \/ Exit(c) \/ Return(c)

FairSpec == Init /\ [][FairNext]_vars /\ WF_vars(OwnStep)

-----------------------------------------------------------------------------
(* Catalog translation: the upstream answers with catalogs of every shape: *)
(* the fields of the user, its roles, and the tenant, each absent, empty   *)
(* or set                                                                  *)

Field(k) == {EmptyDict, k :> "", k :> "x"}

RolesSameSuffix  == << [name |-> <<"f", ":", "b">>], [name |-> <<"g", ":", "b">>] >>
RolesTwoColons   == << [name |-> <<"f", ":", "g", ":", "b">>] >>
RolesEmptySuffix == << [name |-> <<"f", ":">>] >>
RolesNoName      == << [id |-> "1"] >>

TransRoles == {<<>>, Roles, RolesSameSuffix, RolesTwoColons, RolesEmptySuffix,
               RolesNoName}

TransUsers ==
         { n @@ e @@ d @@ [roles |-> Roles] :
             n \in Field("name"), e \in Field("email"),
             d \in Field("RAX-AUTH:domainId") }
    \cup { r @@ [name |-> "alice", email |-> "a@x"] @@ ("RAX-AUTH:domainId" :> "d1") :
             r \in {EmptyDict} \cup {[roles |-> x] : x \in TransRoles} }

TransExpires == [expires |-> Timestamp(Now + 4 * SERVICE_EXPIRATION)]

TransTokens ==
    { t @@ TransExpires :
        t \in {EmptyDict} \cup
               {[tenant |-> n @@ i] : n \in Field("name"), i \in Field("id")} }

TransCatalogs ==
         {[access |-> [user |-> u, token |-> [tenant |-> Tenant] @@ TransExpires]] : u \in TransUsers}
    \cup {[access |-> [user |-> AccessUser, token |-> t]] : t \in TransTokens}
    \cup {[access |-> [user |-> AccessUser]], [access |-> [token |-> TransExpires]],
          [error |-> "x"]}

TransResponses == {CatalogResponse(j) : j \in TransCatalogs}

TransNext == NextOver({PayloadPassword, PayloadNoName}, TransResponses, MaxCallsTrans)

TransSpec == Init /\ [][TransNext]_vars

-----------------------------------------------------------------------------
(* The inbound boundary: payloads of every shape, the identity, the        *)
(* credentials and the domain each absent or present in every form, with   *)
(* and without session headers cached for the two users                    *)

GateIdentities  == {EmptyDict, [name |-> "alice"], [username |-> "bob"],
                    [name |-> "alice", username |-> "bob"]}
GateCredentials == {EmptyDict, [password |-> PlainPassword], [password |-> HexKey],
                    [passcode |-> Passcode],
                    [password |-> PlainPassword, passcode |-> Passcode]}
GateDomains     == {EmptyDict, [domain |-> RaxDomain],
                    [domain |-> [name |-> "Default"]],
                    [domain |-> [id |-> "default"]]}

GatePayloads ==
         { [user |-> i @@ k @@ d] :
             i \in GateIdentities, k \in GateCredentials, d \in GateDomains }
    \cup { [token |-> [id |-> "t"]] }

GateResponses ==
    { CatalogResponse(Catalog(Timestamp(Now + 4 * SERVICE_EXPIRATION))),
      ChallengeResponse(ChallengeS1), StatusResponse(401) }

GateInit ==
    /\ RXT_SESSION_CACHE \in
          { EmptyDict,
            [alice |-> [value |-> ChallengeS1, ct |-> Now],
             bob   |-> [value |-> ChallengeS2, ct |-> Now]] }
    /\ RXT_SERVICE_CACHE = EmptyDict
    /\ rxt_headers = EmptyDict
    /\ session = "open"
    /\ started = 0
    /\ pc = [c \in Calls |-> "idle"]
    /\ auth_payload = [c \in Calls |-> NO_VALUE]
    /\ hashed_auth_payload = [c \in Calls |-> NO_VALUE]
    /\ session_id = [c \in Calls |-> None]
    /\ rxt_auth_payload = [c \in Calls |-> None]
    /\ service_catalog = [c \in Calls |-> NO_VALUE]
    /\ sent = [c \in Calls |-> <<>>]
    /\ environ = [c \in Calls |-> EmptyDict]
    /\ outcome = [c \in Calls |-> None]

GateNext == NextOver(GatePayloads, GateResponses, MaxCallsGate)

GateSpec == GateInit /\ [][GateNext]_vars

-----------------------------------------------------------------------------
(* Outcomes *)

\* what the caller can get from authenticate() by its contract: a handler
\* response (status True or False) or keystone's Unauthorized
StructuredOutcomes == {"success", "mfa_pending", "Unauthorized", "delegated"}

\* exceptions of the HTTP and parsing layers
RawExceptions == {"ConnectionError", "JSONDecodeError", "ParserError"}

\* the catalog cache holds a catalog for payload p that has not expired
FreshInCache(p) ==
    CatalogVerdict(Get(RXT_SERVICE_CACHE, p, SERVICE_EXPIRATION), Now) = "fresh"

\* call c takes the step that leaves position `at`
Leaves(c, at) == pc[c] = at /\ pc'[c] # at

-----------------------------------------------------------------------------
(* C1 *)

\* C1: whenever the catalog cache holds a non-expired catalog under the
\* payload's fingerprint, authenticate(payload) is not turned away by the
\* credential selection, and its cache check returns success without any
\* upstream exchange; for every payload shape and session cache state.
C1_CachedCatalogIsServed ==
    [][\A c \in Calls :
        /\ ( /\ Leaves(c, "idle")
             /\ hashed_auth_payload'[c] # NO_VALUE
             /\ FreshInCache(hashed_auth_payload'[c]) )
           => pc'[c] = "rxt_auth"
        /\ ( /\ Leaves(c, "check")
             /\ CatalogVerdict(service_catalog[c], Now) = "fresh" )
           => /\ pc'[c] = "exit"
              /\ outcome'[c] = "success"
              /\ sent'[c] = sent[c]
      ]_vars

-----------------------------------------------------------------------------
(* C2 *)

\* C2: a call whose first exchange was of kind apiKey and whose exchanges
\* all came back as HTTP failures has made exactly one further exchange, of
\* kind password, and ends in Unauthorized.
C2_FallbackOnce ==
    \A c \in Calls :
        ( /\ pc[c] = "exit"
          /\ Len(sent[c]) >= 1
          /\ sent[c][1].auth_type = "apiKeyCredentials"
          /\ \A i \in DOMAIN sent[c] : sent[c][i].answer = "http_error" )
        => /\ Len(sent[c]) = 2
           /\ sent[c][2].auth_type = "passwordCredentials"
           /\ outcome[c] = "Unauthorized"

-----------------------------------------------------------------------------
(* C9 *)

\* C9: whatever the upstream exchange does, authenticate() ends in a
\* structured outcome; no exception of the HTTP or parsing layer reaches the
\* caller.
C9_NoRawException ==
    \A c \in Calls : outcome[c] \notin RawExceptions

-----------------------------------------------------------------------------
(* C3 *)

\* the session id that the pattern of _sessionID finds in the header cached
\* for a user, "None" when there is no header or no sessionId in it
Extracted(user) ==
    IF user \in DOMAIN RXT_SESSION_CACHE
       /\ ~(Now - RXT_SESSION_CACHE[user].ct > SESSION_EXPIRATION)
       /\ RXT_SESSION_CACHE[user].value.sessionIds # <<>>
    THEN LET ids == RXT_SESSION_CACHE[user].value.sessionIds IN ids[Len(ids)]
    ELSE None

LastSent(c) == sent'[c][Len(sent'[c])]

\* C3: a 401 with a challenge header ends the call in MfaPending with the
\* header cached under the username; a later call of that user with a
\* passcode, while the header is cached, selects passcode, sends in
\* X-SessionId the session id extracted from its user's header (the one it
\* read, or the one cached by now), and succeeds when the upstream answers
\* with a valid catalog.
C3_MfaRoundTrip ==
    [][\A c \in Calls :
        /\ (Leaves(c, "wait") /\ LastSent(c).answer = "challenge")
           => /\ outcome'[c] = "mfa_pending"
              /\ Username(auth_payload[c]) \in DOMAIN RXT_SESSION_CACHE'
        /\ ( /\ Leaves(c, "idle")
             /\ auth_payload'[c] # NO_VALUE
             /\ Truthy(PasscodeOf(auth_payload'[c]))
             /\ Extracted(Username(auth_payload'[c])) # None )
           => /\ rxt_auth_payload'[c] = "passcodeCredentials"
              /\ session_id'[c] = Extracted(Username(auth_payload'[c]))
        /\ ( /\ Leaves(c, "check")
             /\ pc'[c] = "wait"
             /\ rxt_auth_payload[c] = "passcodeCredentials" )
           => /\ HasKey(LastSent(c).headers, "X-SessionId")
              /\ LastSent(c).headers["X-SessionId"] \in
                    {session_id[c], Extracted(Username(auth_payload[c]))}
        /\ ( /\ Leaves(c, "wait")
             /\ rxt_auth_payload[c] = "passcodeCredentials"
             /\ LastSent(c).answer = "catalog" )
           => outcome'[c] = "success"
      ]_vars

-----------------------------------------------------------------------------
(* C4 *)

\* C4 as stated: a payload that carries a passcode, for a user with any
\* cached session header, is selected as passcode and the session id of the
\* header is attached as X-SessionId.
C4_PasscodeWheneverHeaderCached ==
    [][\A c \in Calls :
        ( /\ Leaves(c, "idle")
          /\ auth_payload'[c] # NO_VALUE
          /\ HasKey(auth_payload'[c].user, "passcode")
          /\ Username(auth_payload'[c]) \in DOMAIN RXT_SESSION_CACHE )
        => /\ rxt_auth_payload'[c] = "passcodeCredentials"
           /\ HasKey(rxt_headers', "X-SessionId")
           /\ rxt_headers'["X-SessionId"] = session_id'[c]
      ]_vars

\* C4, amended: a payload with a non-empty passcode, for a user whose cached
\* session header holds a sessionId, is selected as passcode and the last
\* sessionId of the header is attached as X-SessionId.
C4_PasscodeWhenSessionIdCached ==
    [][\A c \in Calls :
        ( /\ Leaves(c, "idle")
          /\ auth_payload'[c] # NO_VALUE
          /\ Truthy(PasscodeOf(auth_payload'[c]))
          /\ Extracted(Username(auth_payload'[c])) # None )
        => /\ rxt_auth_payload'[c] = "passcodeCredentials"
           /\ HasKey(rxt_headers', "X-SessionId")
           /\ rxt_headers'["X-SessionId"] = Extracted(Username(auth_payload'[c]))
      ]_vars

\* a passcode login was selected over a hex password, with the second
\* sessionId of the cached header attached in place of a stale one
C4_Witness ==
    \E c \in Calls :
        /\ pc[c] = "rxt_auth"
        /\ rxt_auth_payload[c] = "passcodeCredentials"
        /\ HasPassword(auth_payload[c])
        /\ MatchesHashType(auth_payload[c].user.password)
        /\ "alice" \in DOMAIN RXT_SESSION_CACHE
        /\ RXT_SESSION_CACHE["alice"].value = ChallengeTwice
        /\ rxt_headers = ("X-SessionId" :> "s2")

-----------------------------------------------------------------------------
(* C5 *)

\* exactly n hexadecimal characters, n one of the hash lengths
ExactHex(s) ==
    /\ \E i \in DOMAIN HashLengths : Len(s) = HashLengths[i]
    /\ \A i \in DOMAIN s : IsHexChar(s[i])

\* C5: passcode selection comes first; otherwise apiKey is selected exactly
\* for a password of 32, 40 or 64 hexadecimal characters, password for every
\* other password.
C5_ApiKeyIffHex ==
    [][\A c \in Calls :
        (Leaves(c, "idle") /\ pc'[c] = "rxt_auth")
        => LET p == auth_payload'[c] IN
           IF Truthy(PasscodeOf(p)) /\ Extracted(Username(p)) # None
           THEN rxt_auth_payload'[c] = "passcodeCredentials"
           ELSE /\ ExactHex(p.user.password)
                   => rxt_auth_payload'[c] = "apiKeyCredentials"
                /\ ~ExactHex(p.user.password)
                   => rxt_auth_payload'[c] = "passwordCredentials"
      ]_vars

-----------------------------------------------------------------------------
(* C6 *)

\* the value read from the catalog cache carries an expires that is not
\* later than the current time
ReadStale(c) ==
    /\ service_catalog[c] # NO_VALUE
    /\ HasKey(service_catalog[c].access.token, "expires")
    /\ Parsable(service_catalog[c].access.token.expires)
    /\ service_catalog[c].access.token.expires.iso <= Now

\* the call goes on as on a cache miss: MfaPending at the gate, else the post
ContinuesAsMiss(c) ==
    IF Truthy(session_id[c]) /\ rxt_auth_payload[c] = "passwordCredentials"
    THEN pc'[c] = "exit" /\ outcome'[c] = "mfa_pending" /\ sent'[c] = sent[c]
    ELSE pc'[c] = "wait" /\ Len(sent'[c]) = Len(sent[c]) + 1

\* C6: a cached catalog whose expires is not later than the current time is
\* never returned as a success: the cache check deletes the entry under the
\* fingerprint and the call continues as on a cache miss.
C6_ExpiredNeverServed ==
    [][\A c \in Calls :
        (Leaves(c, "check") /\ ReadStale(c))
        => /\ outcome'[c] # "success"
           /\ hashed_auth_payload[c] \notin DOMAIN RXT_SERVICE_CACHE'
           /\ ContinuesAsMiss(c)
      ]_vars

\* a call read an expired catalog and went on to post
C6_Witness ==
    \E c \in Calls :
        /\ pc[c] = "wait"
        /\ CatalogVerdict(service_catalog[c], Now) = "expired"
        /\ hashed_auth_payload[c] \notin DOMAIN RXT_SERVICE_CACHE

-----------------------------------------------------------------------------
(* C7 *)

\* C7: a cached catalog whose expires is missing or cannot be parsed is
\* evicted and the call proceeds as on a cache miss, with no error.
C7_MalformedExpiryEvicted ==
    [][\A c \in Calls :
        ( /\ Leaves(c, "check")
          /\ CatalogVerdict(service_catalog[c], Now) \in {"invalid", "unparsable"} )
        => /\ hashed_auth_payload[c] \notin DOMAIN RXT_SERVICE_CACHE'
           /\ ContinuesAsMiss(c)
      ]_vars

-----------------------------------------------------------------------------
(* C8 *)

\* the cache check of call c ends in a miss (nothing usable was read)
EndsInMiss(c) ==
    /\ Leaves(c, "check")
    /\ CatalogVerdict(service_catalog[c], Now) \in {"miss", "invalid", "expired"}

PendingWithoutExchange(c) ==
    pc'[c] = "exit" /\ outcome'[c] = "mfa_pending" /\ sent'[c] = sent[c]

\* C8 as stated: after a catalog cache miss, with a session header cached for
\* the user and kind password, the call returns MfaPending without exchange.
C8_PendingWheneverHeaderCached ==
    [][\A c \in Calls :
        ( /\ EndsInMiss(c)
          /\ rxt_auth_payload[c] = "passwordCredentials"
          /\ Get(RXT_SESSION_CACHE, Username(auth_payload[c]), SESSION_EXPIRATION)
               # NO_VALUE )
        => PendingWithoutExchange(c)
      ]_vars

\* C8, amended: the session id a call holds is the one found in the header
\* cached for its user when its credentials were selected; after a catalog
\* cache miss, a call of kind password that holds a session id returns
\* MfaPending without exchange.
C8_PendingWhenSessionIdHeld ==
    [][\A c \in Calls :
        /\ (Leaves(c, "idle") /\ pc'[c] = "rxt_auth")
           => session_id'[c] = Extracted(Username(auth_payload'[c]))
        /\ ( /\ EndsInMiss(c)
             /\ rxt_auth_payload[c] = "passwordCredentials"
             /\ session_id[c] # None )
           => PendingWithoutExchange(c)
      ]_vars

\* a password login was answered MfaPending without any exchange
C8_Witness ==
    \E c \in Calls :
        /\ pc[c] = "exit"
        /\ outcome[c] = "mfa_pending"
        /\ sent[c] = <<>>
        /\ rxt_auth_payload[c] = "passwordCredentials"
        /\ session_id[c] = "s1"

-----------------------------------------------------------------------------
(* C10 *)

\* C10: every call that has begun ends with an outcome, even when the
\* upstream never answers.
C10_Terminates ==
    \A c \in Calls :
        (pc[c] \in {"rxt_auth", "check", "wait"}) ~> (pc[c] \in {"exit", "done"})

-----------------------------------------------------------------------------
(* C11 *)

\* the six federation attributes of the request environment
FederationKeys == {"RXT_UserName", "RXT_Email", "RXT_DomainID",
                   "RXT_TenantName", "RXT_TenantID", "RXT_orgPersonType"}

\* C11: the translation of a catalog writes all six federation attributes
\* to the request environment, or it fails and writes none; a call that
\* succeeds has all six, and no environment ever holds a proper subset.
C11_AllOrNothing ==
    \A c \in Calls :
        /\ DOMAIN environ[c] \in {{}, FederationKeys}
        /\ outcome[c] = "success" => DOMAIN environ[c] = FederationKeys

-----------------------------------------------------------------------------
(* C12 *)

\* what follows the last colon of a role name, the whole name without colon
AfterLastColon(name) ==
    LET colons == {i \in DOMAIN name : name[i] = ":"} IN
    IF colons = {} THEN name
    ELSE LET last == CHOOSE i \in colons : \A j \in colons : j <= i IN
         SubSeq(name, last + 1, Len(name))

\* the semicolon-joins, in any order, of the distinct suffixes of the roles
RoleTypeStrings(roles) ==
    {Join(o) : o \in Orders({AfterLastColon(roles[i].name) : i \in DOMAIN roles})}

\* the catalog that call c translates in the step that makes it succeed
Translated(c) ==
    IF pc[c] = "check" THEN service_catalog[c]
    ELSE RXT_SERVICE_CACHE'[hashed_auth_payload[c]].value

\* C12: for every list of roles of a translated catalog, the role-type
\* string emitted is the semicolon-join of the set of the role names cut
\* after their last colon.
C12_RoleTypeString ==
    [][\A c \in Calls :
        (outcome[c] # "success" /\ outcome'[c] = "success")
        => /\ HasKey(environ'[c], "RXT_orgPersonType")
           /\ environ'[c].RXT_orgPersonType
                 \in RoleTypeStrings(Translated(c).access.user.roles)
      ]_vars

-----------------------------------------------------------------------------
(* C13 *)

\* C13: the credential selection turns a payload away for a missing
\* credential only when it has no password and no passcode; a payload with
\* a passcode and no password is never turned away, with or without a
\* session header cached for its user.
C13_PasscodeNeedsNoPassword ==
    \A c \in Calls :
        ( /\ pc[c] = "done"
          /\ outcome[c] = "Unauthorized"
          /\ HasKey(auth_payload[c], "user")
          /\ HasUsername(auth_payload[c]) )
        => /\ ~HasPassword(auth_payload[c])
           /\ ~Truthy(PasscodeOf(auth_payload[c]))

-----------------------------------------------------------------------------
(* C14 *)

\* the payload is addressed to the Rackspace domain
ForRackspace(p) ==
    /\ "user" \in DOMAIN p
    /\ "domain" \in DOMAIN p.user
    /\ "name" \in DOMAIN p.user.domain
    /\ p.user.domain.name = "rackspace_cloud_domain"

NoIdentity(p)   == DOMAIN p.user \cap {"name", "username"} = {}
NoCredential(p) == DOMAIN p.user \cap {"password", "passcode"} = {}
BothNames(p)    == {"name", "username"} \subseteq DOMAIN p.user

\* C14: a payload without user.name and user.username, or without password
\* and passcode, ends in Unauthorized at once: nothing is posted, now or
\* later, and no cache entry is written or deleted; a payload with both
\* user.name and user.username is handled under user.name: the session
\* header is looked up, and a challenge is cached, under that name.
C14_MalformedPayloadFails ==
    [][\A c \in Calls :
        /\ (Leaves(c, "idle") /\ ForRackspace(auth_payload'[c]))
           => LET p == auth_payload'[c] IN
              /\ (NoIdentity(p) \/ NoCredential(p))
                 => /\ pc'[c] = "done"
                    /\ outcome'[c] = "Unauthorized"
                    /\ sent'[c] = <<>>
                    /\ RXT_SESSION_CACHE' = RXT_SESSION_CACHE
                    /\ RXT_SERVICE_CACHE' = RXT_SERVICE_CACHE
              /\ (BothNames(p) /\ pc'[c] = "rxt_auth")
                 => session_id'[c] = Extracted(p.user.name)
        /\ pc[c] = "done"
           => pc'[c] \in {"done", "idle"} /\ sent'[c] = <<>>
        /\ ( /\ Leaves(c, "wait")
             /\ LastSent(c).answer = "challenge"
             /\ BothNames(auth_payload[c]) )
           => /\ auth_payload[c].user.name \in DOMAIN RXT_SESSION_CACHE'
              /\ RXT_SESSION_CACHE'[auth_payload[c].user.name].ct = Now
      ]_vars

\* a payload without identity was turned away while session headers were
\* cached, and a payload with both names holds the session id of user.name
C14_Witness ==
    /\ \E c \in Calls :
          /\ pc[c] = "done"
          /\ outcome[c] = "Unauthorized"
          /\ ForRackspace(auth_payload[c])
          /\ NoIdentity(auth_payload[c])
          /\ HasPassword(auth_payload[c])
    /\ \E c \in Calls :
          /\ pc[c] = "rxt_auth"
          /\ BothNames(auth_payload[c])
          /\ session_id[c] = "s1"
    /\ DOMAIN RXT_SESSION_CACHE = {"alice", "bob"}

-----------------------------------------------------------------------------
(* C15 *)

\* C15: a call posts at most two exchanges; a second one only after a first
\* of kind apiKey that came back as an HTTP failure, and then of kind
\* password; the kind of a call, once password or passcode, stays.
C15_AtMostTwoExchanges ==
    [][\A c \in Calls :
        /\ Len(sent'[c]) <= 2
        /\ Len(sent'[c]) = 2
           => /\ sent'[c][1].auth_type = "apiKeyCredentials"
              /\ sent'[c][1].answer = "http_error"
              /\ sent'[c][2].auth_type = "passwordCredentials"
        /\ ( /\ rxt_auth_payload[c] \in {"passwordCredentials", "passcodeCredentials"}
             /\ pc'[c] # "idle" )
           => rxt_auth_payload'[c] = rxt_auth_payload[c]
      ]_vars

\* a call fell back from apiKey to password and waits for its second answer
C15_Witness ==
    \E c \in Calls :
        /\ pc[c] = "wait"
        /\ Len(sent[c]) = 2
        /\ rxt_auth_payload[c] = "passwordCredentials"

-----------------------------------------------------------------------------
(* C16 *)

\* the step stores an entry under key k of the region
Written(region, region2, k) ==
    /\ k \in DOMAIN region2
    /\ region2[k].ct = Now
    /\ k \in DOMAIN region => region[k] # region2[k]

\* the outcomes that are failures
Failures == {"Unauthorized"} \cup RawExceptions

-----------------------------------------------------------------------------
(* C17 *)

\* C17: while the exchange of a call is in progress on the shared session,
\* no other call has closed the session.
C17_SessionOpenWhileInUse ==
    \A c \in Calls : pc[c] = "wait" => session = "open"

-----------------------------------------------------------------------------
(* C18 *)

\* C18: an exchange carries X-SessionId only when its call selected
\* passcode, and the value is the session id that the call extracted from
\* the session header of its own user.
C18_HeaderIsolation ==
    \A c \in Calls : \A i \in DOMAIN sent[c] :
        HasKey(sent[c][i].headers, "X-SessionId")
        => /\ sent[c][i].auth_type = "passcodeCredentials"
           /\ sent[c][i].headers["X-SessionId"] = session_id[c]

-----------------------------------------------------------------------------
(* C19 *)

\* C19: the cache check of a call deletes the entry under its fingerprint
\* only when the entry then in the cache is expired or has no usable
\* expires; a catalog that is not expired is never evicted.
C19_OnlyStaleEvicted ==
    [][\A c \in Calls :
        ( /\ Leaves(c, "check")
          /\ hashed_auth_payload[c] \in DOMAIN RXT_SERVICE_CACHE
          /\ hashed_auth_payload[c] \notin DOMAIN RXT_SERVICE_CACHE' )
        => CatalogVerdict(RXT_SERVICE_CACHE[hashed_auth_payload[c]].value, Now)
              \in {"expired", "invalid", "unparsable"}
      ]_vars

-----------------------------------------------------------------------------
(* C20 *)

\* C20: a payload whose user.domain.name is absent or is not
\* "rackspace_cloud_domain" is delegated to the host plugin: no credentials
\* object is built, nothing is posted, now or later, and the session cache,
\* the catalog cache and the outbound headers stay as they are, whatever
\* the caches hold.
C20_DomainGate ==
    [][\A c \in Calls :
        /\ (Leaves(c, "idle") /\ ~ForRackspace(auth_payload'[c]))
           => /\ pc'[c] = "done"
              /\ outcome'[c] = "delegated"
              /\ hashed_auth_payload'[c] = NO_VALUE
              /\ session_id'[c] = None
              /\ sent'[c] = <<>>
              /\ UNCHANGED <<RXT_SESSION_CACHE, RXT_SERVICE_CACHE, rxt_headers, session>>
        /\ (pc[c] = "done" /\ outcome[c] = "delegated")
           => /\ pc'[c] \in {"done", "idle"}
              /\ sent'[c] = <<>>
        /\ Len(sent'[c]) > Len(sent[c]) => ForRackspace(auth_payload[c])
      ]_vars

\* a password login for the domain "Default" was delegated while a session
\* header was cached under its user name
C20_Witness ==
    \E c \in Calls :
        /\ pc[c] = "done"
        /\ outcome[c] = "delegated"
        /\ HasKey(auth_payload[c], "user")
        /\ HasKey(auth_payload[c].user, "domain")
        /\ auth_payload[c].user.domain = [name |-> "Default"]
        /\ HasKey(auth_payload[c].user, "name")
        /\ HasPassword(auth_payload[c])
        /\ auth_payload[c].user.name \in DOMAIN RXT_SESSION_CACHE

====
